---- MODULE Spec2Model ----
(***************************************************************************)
(* Fuel-price watcher (src/index.ts): price feed -> per (fuelType, region) *)
(* history and trend report -> one digest email per subscriber.            *)
(*                                                                         *)
(* Prices, deltas and the alert threshold are integers in hundredths, so   *)
(* the literal 0.01 of findPriceTrend is 1.  A PriceInfo is modelled by    *)
(* its price: timestamp, state and suburb are copied along and only        *)
(* printed in the email body.                                              *)
(***************************************************************************)
EXTENDS Integers, Sequences, FiniteSets, TLC

---------------------------------------------------------------------------
(* Bounds of the model *)

MaxPrice == 1
MaxLimit == 2
MaxRuns == 2
MaxDelta == 14

(* Prices of the feed, and the settings tried against them: a threshold    *)
(* within the range of the deltas, a limit that one more dataset overflows *)
Prices == 0..MaxPrice
Thresholds == 0..MaxPrice
HistoryLimits == 0..MaxLimit
MaxDatasets == MaxLimit + 1
Deltas == (0 - MaxDelta)..MaxDelta

---------------------------------------------------------------------------
(* common_types.ts / models.ts.  Of the five regions and six fuel types   *)
(* the model follows two each: the aggregate region and one state, and the *)
(* two fuel types testScript subscribes to.                                *)

ALL_REGIONS == <<"All", "VIC">>
ALL_FUEL_TYPES == <<"U95", "U98">>

Range(s) == {s[i] : i \in DOMAIN s}
Regions == Range(ALL_REGIONS)
FuelTypes == Range(ALL_FUEL_TYPES)

FastDrop == -2
Dropped == -1
NoChange == 0
Raised == 1
FastRaise == 2

Epsilon == 1

(* DynamicSettings defaults: alertThreshold '3.0', historyLimit '5' *)
DefaultAlertThreshold == 300
DefaultHistoryLimit == 5

Null == "null"
NoPrice == [price |-> -1]

PriceInfo(p) == [price |-> p]

HistoryKey(fuelType, region) == <<fuelType, region>>
Keys == {HistoryKey(f, r) : f \in FuelTypes, r \in Regions}

PriceReport(type, region, latestPrices, historyPrices, priceDelta, trend) ==
  [type |-> type, region |-> region, latestPrices |-> latestPrices,
   historyPrices |-> historyPrices, priceDelta |-> priceDelta, trend |-> trend]

priceChanged(report) == report.trend # NoChange

NoKey == <<"none", "none">>
NoReport == PriceReport("none", "none", <<>>, <<>>, 0, NoChange)

---------------------------------------------------------------------------
VARIABLES
  alertThreshold,  \* settings.alertThreshold
  historyLimit,    \* settings.historyLimit
  properties,      \* per-user settings kept in the script properties
  store,           \* history lists kept in the script properties, by key
  now,             \* number of runs started / datasets fetched so far
  dataset,         \* PriceInfoSet.dataset
  last,            \* the latest buildReport call on the dataset, and what it did
  pc,              \* position inside checkPrice / testScript
  kind,            \* which entry point is running
  fetchFailed,     \* fetchPriceDataset threw in this run
  built,           \* buildReportSet has returned in this run
  reports,         \* the PriceReportSet of this run
  storeAtStart,    \* the store when the run started
  emails,          \* the ReportEmail list of this run
  idx,             \* position of the for loop over emails
  sentTo,          \* recipients handed to MailApp.sendEmail in this run
  error,           \* the exception that left the entry point, if any
  trendCall        \* a findPriceTrend call: its argument and its result

settingsVars == <<alertThreshold, historyLimit, properties>>
runVars == <<pc, kind, fetchFailed, built, reports, storeAtStart, emails, idx,
             sentTo, error>>
vars == <<alertThreshold, historyLimit, properties, store, now, dataset, last,
          pc, kind, fetchFailed, built, reports, storeAtStart, emails, idx,
          sentTo, error, trendCall>>

---------------------------------------------------------------------------
(* PriceInfoSet *)

Abs(x) == IF x < 0 THEN 0 - x ELSE x

findPriceTrend_FastAtThreshold(priceDelta) ==
  LET absDelta == Abs(priceDelta) IN
  IF absDelta < Epsilon THEN NoChange
  ELSE IF priceDelta > 0
       THEN (IF absDelta >= alertThreshold THEN FastRaise ELSE Raised)
       ELSE (IF absDelta >= alertThreshold THEN FastDrop ELSE Dropped)

findPriceTrend(priceDelta) ==
  LET absDelta == Abs(priceDelta) IN
  IF absDelta < Epsilon THEN NoChange
  ELSE IF priceDelta > 0
       THEN (IF absDelta > alertThreshold THEN FastRaise ELSE Raised)
       ELSE (IF absDelta > alertThreshold THEN FastDrop ELSE Dropped)

RECURSIVE Filter(_, _, _)
Filter(ds, fuelType, region) ==
  IF ds = <<>> THEN <<>>
  ELSE LET d == Head(ds) IN
       IF d.type = fuelType /\ d.region = region
       THEN <<d>> \o Filter(Tail(ds), fuelType, region)
       ELSE Filter(Tail(ds), fuelType, region)

RECURSIVE InsertByIndex(_, _)
InsertByIndex(d, sorted) ==
  IF sorted = <<>> THEN <<d>>
  ELSE IF d.index < Head(sorted).index THEN <<d>> \o sorted
       ELSE <<Head(sorted)>> \o InsertByIndex(d, Tail(sorted))

RECURSIVE SortByIndex(_)
SortByIndex(ds) ==
  IF ds = <<>> THEN <<>>
  ELSE InsertByIndex(ds[Len(ds)], SortByIndex(SubSeq(ds, 1, Len(ds) - 1)))

findLatestPrices(ds, fuelType, region) ==
  LET latestPrices == SortByIndex(Filter(ds, fuelType, region)) IN
  [i \in 1..Len(latestPrices) |-> latestPrices[i].priceInfo]

historyToDrop_NeverDrops(history) == 0

historyToDrop(history) == IF Len(history) < historyLimit THEN 0 ELSE 1

updateHistoryPrice_NoEqualityCheck(history, newPrice) ==
  IF Len(history) = 0 THEN [history |-> <<newPrice>>, changed |-> TRUE]
  ELSE [history |->
          SubSeq(history, historyToDrop(history) + 1, Len(history))
            \o <<newPrice>>,
        changed |-> TRUE]

updateHistoryPrice(history, newPrice) ==
  IF Len(history) = 0 THEN [history |-> <<newPrice>>, changed |-> TRUE]
  ELSE IF history[Len(history)].price = newPrice.price
       THEN [history |-> history, changed |-> FALSE]
       ELSE [history |->
               SubSeq(history, historyToDrop(history) + 1, Len(history))
                 \o <<newPrice>>,
             changed |-> TRUE]

buildHistoryPrices(history, newPrice) ==
  IF newPrice = NoPrice
  THEN [history |-> history, changed |-> FALSE, stored |-> FALSE]
  ELSE LET u == updateHistoryPrice(history, newPrice) IN
       [history |-> u.history, changed |-> u.changed, stored |-> u.changed]

bestPriceOf(latestPrices) ==
  IF Len(latestPrices) > 0 THEN latestPrices[1] ELSE NoPrice

buildReport(ds, st, fuelType, region) ==
  LET latestPrices == findLatestPrices(ds, fuelType, region)
      h == buildHistoryPrices(st[HistoryKey(fuelType, region)],
                              bestPriceOf(latestPrices))
      n == Len(h.history)
      dt == IF h.changed /\ n >= 2
            THEN LET priceDelta == h.history[n].price - h.history[n - 1].price
                 IN [priceDelta |-> priceDelta,
                     priceTrend |-> findPriceTrend(priceDelta)]
            ELSE IF h.changed /\ n = 1
                 THEN LET priceDelta == h.history[1].price
                      IN [priceDelta |-> priceDelta,
                          priceTrend |-> findPriceTrend(priceDelta)]
                 ELSE [priceDelta |-> 0, priceTrend |-> NoChange]
  IN [report |-> PriceReport(fuelType, region, latestPrices, h.history,
                             dt.priceDelta, dt.priceTrend),
      changed |-> h.changed,
      stored |-> h.stored]

storeAfter(st, fuelType, region, b) ==
  IF b.stored
  THEN [st EXCEPT ![HistoryKey(fuelType, region)] = b.report.historyPrices]
  ELSE st

buildReportSet(ds, st) ==
  [k \in Keys |-> buildReport(ds, st, k[1], k[2])]

---------------------------------------------------------------------------
(* api_repository.ts: the feed, as ApiResponse.regions.  A raw region name *)
(* is kept as the list of its parts around "-".                            *)

ParseInt(str) == CASE str = "1" -> 1 [] str = "2" -> 2

parseRegionName(rawName) ==
  <<rawName[1], IF Len(rawName) = 1 THEN 1 ELSE ParseInt(rawName[2])>>

RECURSIVE transformData(_)
transformData(regions) ==
  IF regions = <<>> THEN <<>>
  ELSE LET regionData == Head(regions)
           parsed == parseRegionName(regionData.region)
       IN [i \in 1..Len(regionData.prices) |->
             [type |-> regionData.prices[i].type,
              region |-> parsed[1],
              index |-> parsed[2],
              priceInfo |-> PriceInfo(regionData.prices[i].price)]]
          \o transformData(Tail(regions))

(* The feeds a fetch may return: any sub-list of three regions, the        *)
(* secondary VIC entry listed before the primary one, every listed region  *)
(* carrying one price for every fuel type; a secondary entry costs one     *)
(* more.                                                                   *)
RawRegions == << <<"VIC", "2">>, <<"All">>, <<"VIC">> >>

RegionDataOf(rawName, price) ==
  [region |-> rawName,
   prices |-> [i \in 1..Len(ALL_FUEL_TYPES) |->
                 [type |-> ALL_FUEL_TYPES[i],
                  price |-> price + (Len(rawName) - 1)]]]

RECURSIVE FeedOf(_, _, _)
FeedOf(present, price, i) ==
  IF i > Len(RawRegions) THEN <<>>
  ELSE (IF i \in present THEN <<RegionDataOf(RawRegions[i], price)>> ELSE <<>>)
       \o FeedOf(present, price, i + 1)

Feeds ==
  {FeedOf(present, price, 1) :
     present \in SUBSET (1..Len(RawRegions)), price \in Prices}

---------------------------------------------------------------------------
(* The PriceInfoSet taken on its own: datasets are fetched and buildReport *)
(* is called on the current one, for any region, any number of times.  The *)
(* feeds price every fuel type alike, so one fuel type is followed.        *)

WatchedFuel == "U98"

NoCall ==
  [key |-> NoKey, best |-> NoPrice, before |-> <<>>, report |-> NoReport,
   changed |-> FALSE, stored |-> FALSE, repeated |-> FALSE,
   prevReport |-> NoReport]

InitSettings ==
  /\ alertThreshold \in Thresholds
  /\ historyLimit \in HistoryLimits

InitCommon ==
  /\ store = [k \in Keys |-> <<>>]
  /\ now = 0
  /\ dataset = <<>>
  /\ last = NoCall
  /\ pc = "idle"
  /\ kind = "none"
  /\ fetchFailed = FALSE
  /\ built = FALSE
  /\ reports = [k \in Keys |-> NoReport]
  /\ storeAtStart = [k \in Keys |-> <<>>]
  /\ emails = <<>>
  /\ idx = 0
  /\ sentTo = {}
  /\ error = "none"

NoTrendCall == [delta |-> 0, trend |-> NoChange, done |-> FALSE]

InitBuilder ==
  /\ InitSettings
  /\ properties = <<>>
  /\ trendCall = NoTrendCall
  /\ InitCommon

NewDataset(feed) ==
  /\ now < MaxDatasets
  /\ now' = now + 1
  /\ dataset' = transformData(feed)
  /\ last' = NoCall
  /\ UNCHANGED <<settingsVars, store, runVars, trendCall>>

CallBuildReport(fuelType, region) ==
  /\ now > 0
  /\ LET b == buildReport(dataset, store, fuelType, region)
         key == HistoryKey(fuelType, region)
         again == last.key = key
     IN /\ store' = storeAfter(store, fuelType, region, b)
        /\ last' = [key |-> key,
                    best |-> bestPriceOf(b.report.latestPrices),
                    before |-> store[key],
                    report |-> b.report,
                    changed |-> b.changed,
                    stored |-> b.stored,
                    repeated |-> again,
                    prevReport |-> IF again THEN last.report ELSE NoReport]
  /\ UNCHANGED <<settingsVars, now, dataset, runVars, trendCall>>

NextBuilder ==
  \/ \E feed \in Feeds : NewDataset(feed)
  \/ \E r \in Regions : CallBuildReport(WatchedFuel, r)

SpecBuilder == InitBuilder /\ [][NextBuilder]_vars

---------------------------------------------------------------------------
(* Properties of buildReport, under SpecBuilder *)

Called == last.key # NoKey
LastOf(history) == history[Len(history)]

\* C1 (as claimed): for any historyLimit setting, the history returned in the
\* report and the history persisted for every key have length <= historyLimit.
C1_HistoryBounded ==
  /\ Len(last.report.historyPrices) <= historyLimit
  /\ \A k \in Keys : Len(store[k]) <= historyLimit

\* C1 (amended): when historyLimit is at least 1, the history returned in the
\* report and the history persisted for every key have length <= historyLimit.
C1_HistoryBoundedPositiveLimit ==
  historyLimit >= 1 => C1_HistoryBounded

\* C1 witness: a full history of at least two entries was updated and stored,
\* and is still exactly historyLimit long.
C1_Witness ==
  /\ historyLimit >= 2
  /\ last.stored
  /\ Len(last.before) = historyLimit
  /\ Len(store[last.key]) = historyLimit

\* C2 (as claimed): a second buildReport call in a row for the same key on the
\* same dataset returns a report identical to the first and writes nothing.
C2_Idempotent ==
  last.repeated => (last.report = last.prevReport /\ ~last.stored)

\* C2 (amended): a second buildReport call in a row for the same key on the
\* same dataset writes nothing and returns the same latestPrices and
\* historyPrices as the first, with priceDelta 0 and trend NoChange; so the two
\* reports are identical exactly when the first had priceDelta 0 and NoChange.
C2_SecondCallReportsNoChange ==
  last.repeated =>
    /\ ~last.stored
    /\ last.report.latestPrices = last.prevReport.latestPrices
    /\ last.report.historyPrices = last.prevReport.historyPrices
    /\ last.report.priceDelta = 0
    /\ last.report.trend = NoChange
    /\ (last.report = last.prevReport) <=>
         (last.prevReport.priceDelta = 0 /\ last.prevReport.trend = NoChange)

\* C2 witness: the second call follows a first call that reported a change.
C2_Witness ==
  /\ last.repeated
  /\ last.best # NoPrice
  /\ last.prevReport.trend # NoChange
  /\ Len(last.report.historyPrices) >= 2

\* C8 (as claimed): with an empty persisted history and a best price P, the
\* history becomes <<P>> and is persisted, priceDelta is P's price and the trend
\* is findPriceTrend of it; and the report takes the absolute price as its
\* delta only for the first observation of a key.
C8_FirstObservation ==
  Called =>
    /\ (last.before = <<>> /\ last.best # NoPrice) =>
         /\ last.report.historyPrices = <<last.best>>
         /\ store[last.key] = <<last.best>>
         /\ last.report.priceDelta = last.best.price
         /\ last.report.trend = findPriceTrend(last.best.price)
    /\ (last.changed /\ Len(last.report.historyPrices) = 1) =>
         last.before = <<>>

\* C9 (as claimed): when the last stored price differs from the best price, the
\* new history is the old one with the best price appended, less the oldest
\* entry when the limit would be exceeded; it is what is persisted, and
\* priceDelta is the best price minus the previously last stored price.
C9_ChangedUpdate ==
  (/\ Called
   /\ last.before # <<>>
   /\ last.best # NoPrice
   /\ LastOf(last.before).price # last.best.price) =>
    LET appended == last.before \o <<last.best>>
        expected == IF Len(appended) > historyLimit
                    THEN Tail(appended) ELSE appended
    IN /\ last.report.historyPrices = expected
       /\ store[last.key] = expected
       /\ last.report.priceDelta = last.best.price - LastOf(last.before).price

---------------------------------------------------------------------------
(* findPriceTrend taken on its own: called on any delta under any          *)
(* alertThreshold setting.                                                 *)

TrendThresholds == 0..MaxDelta

InitTrend ==
  /\ alertThreshold \in TrendThresholds
  /\ historyLimit = DefaultHistoryLimit
  /\ properties = <<>>
  /\ trendCall \in [delta : Deltas, trend : {NoChange}, done : {FALSE}]
  /\ InitCommon

CallFindPriceTrend ==
  /\ ~trendCall.done
  /\ trendCall' = [trendCall EXCEPT !.trend = findPriceTrend(trendCall.delta),
                                    !.done = TRUE]
  /\ UNCHANGED <<settingsVars, store, now, dataset, last, runVars>>

NextDelta(d) ==
  /\ trendCall.done
  /\ trendCall' = [delta |-> d, trend |-> NoChange, done |-> FALSE]
  /\ UNCHANGED <<settingsVars, store, now, dataset, last, runVars>>

NextTrend ==
  \/ CallFindPriceTrend
  \/ \E d \in Deltas : NextDelta(d)

SpecTrend == InitTrend /\ [][NextTrend]_vars

\* C7: findPriceTrend(d) is NoChange iff |d| < 0.01, FastRaise iff d > 0 and
\* |d| > alertThreshold, FastDrop iff d < 0 and |d| > alertThreshold.
C7_TrendClassification ==
  trendCall.done =>
    LET d == trendCall.delta
        t == trendCall.trend
    IN /\ (t = NoChange) <=> (Abs(d) < Epsilon)
       /\ (t = FastRaise) <=> (d > 0 /\ Abs(d) > alertThreshold)
       /\ (t = FastDrop) <=> (d < 0 /\ Abs(d) > alertThreshold)

\* C7 witness: a drop of exactly the threshold has been classified, and is not
\* a fast drop.
C7_Witness ==
  /\ trendCall.done
  /\ alertThreshold >= 2
  /\ trendCall.delta = 0 - alertThreshold
  /\ trendCall.trend = Dropped

---------------------------------------------------------------------------
(* dynamic settings.ts: the subscribers.  A stored setting is a JSON text: *)
(* either one that JSON.parse rejects, or an array.                        *)

Users == <<"a@x", "b@x">>

Malformed == [parses |-> FALSE, array |-> <<>>]
Setting(array) == [parses |-> TRUE, array |-> array]

UserSettings ==
  {Malformed,
   Setting(<< <<"U98">>, "VIC" >>),
   Setting(<< <<"U95">>, Null, TRUE >>)}

ElementOr(array, i, default) == IF i <= Len(array) THEN array[i] ELSE default

StoredForceSend(setting) == setting.parses /\ ElementOr(setting.array, 3, FALSE)

ReportEmail(recipient, fuelTypes, homeState, forceSend) ==
  [recipient |-> recipient, fuelTypes |-> fuelTypes, homeState |-> homeState,
   forceSend |-> forceSend, reports |-> <<>>, changed |-> FALSE,
   state |-> "new"]

loadUsersThrows == \E i \in 1..Len(Users) : ~properties[Users[i]].parses

loadUsers ==
  [i \in 1..Len(Users) |->
     LET array == properties[Users[i]].array
     IN ReportEmail(Users[i], ElementOr(array, 1, <<>>),
                    ElementOr(array, 2, Null), FALSE)]

TestEmail == ReportEmail("timnew@hey.com", <<"U98", "U95">>, "VIC", TRUE)

---------------------------------------------------------------------------
(* email.ts *)

addReport(email, report) ==
  IF report # NoReport
  THEN [email EXCEPT !.reports = Append(@, report),
                     !.changed = @ \/ priceChanged(report)]
  ELSE email

LookUp(reportSet, fuelType, region) ==
  IF HistoryKey(fuelType, region) \in Keys
  THEN reportSet[HistoryKey(fuelType, region)] ELSE NoReport

RECURSIVE addRegions(_, _, _, _)
addRegions(email, reportSet, fuelType, regions) ==
  IF regions = <<>> THEN email
  ELSE IF Head(regions) = Null
       THEN addRegions(email, reportSet, fuelType, Tail(regions))
       ELSE addRegions(addReport(email, LookUp(reportSet, fuelType, Head(regions))),
                       reportSet, fuelType, Tail(regions))

RECURSIVE addFuelTypes(_, _, _)
addFuelTypes(email, reportSet, fuelTypes) ==
  IF fuelTypes = <<>> THEN email
  ELSE addFuelTypes(addRegions(email, reportSet, Head(fuelTypes),
                               <<"All", email.homeState>>),
                    reportSet, Tail(fuelTypes))

addReports(email, reportSet) == addFuelTypes(email, reportSet, email.fuelTypes)

bestPriceThrows(report) == report.latestPrices = <<>>

sendThrows(email) ==
  \E i \in 1..Len(email.reports) : bestPriceThrows(email.reports[i])

sendGate(email) == email.changed \/ email.forceSend

---------------------------------------------------------------------------
(* main.ts: checkPrice and testScript, one step at a time *)

InitRun ==
  /\ alertThreshold = DefaultAlertThreshold
  /\ historyLimit = DefaultHistoryLimit
  /\ properties \in [Range(Users) -> UserSettings]
  /\ trendCall = NoTrendCall
  /\ InitCommon

Start(entry) ==
  /\ pc \in {"idle", "done", "aborted"}
  /\ now < MaxRuns
  /\ now' = now + 1
  /\ kind' = entry
  /\ pc' = "fetch"
  /\ fetchFailed' = FALSE
  /\ built' = FALSE
  /\ reports' = [k \in Keys |-> NoReport]
  /\ storeAtStart' = store
  /\ dataset' = <<>>
  /\ emails' = <<>>
  /\ idx' = 0
  /\ sentTo' = {}
  /\ error' = "none"
  /\ UNCHANGED <<settingsVars, store, last, trendCall>>

FetchFails_Swallowed ==
  /\ pc = "fetch"
  /\ fetchFailed' = TRUE
  /\ dataset' = <<>>
  /\ pc' = "build"
  /\ UNCHANGED <<settingsVars, store, now, last, trendCall, kind, built,
                 reports, storeAtStart, emails, idx, sentTo, error>>

FetchFails ==
  /\ pc = "fetch"
  /\ fetchFailed' = TRUE
  /\ pc' = "aborted"
  /\ error' = "FeedFetchError"
  /\ UNCHANGED <<settingsVars, store, now, dataset, last, trendCall, kind,
                 built, reports, storeAtStart, emails, idx, sentTo>>

FetchSucceeds(feed) ==
  /\ pc = "fetch"
  /\ dataset' = transformData(feed)
  /\ pc' = "build"
  /\ UNCHANGED <<settingsVars, store, now, last, trendCall, kind, fetchFailed,
                 built, reports, storeAtStart, emails, idx, sentTo, error>>

BuildReportSet ==
  /\ pc = "build"
  /\ LET b == buildReportSet(dataset, store)
     IN /\ reports' = [k \in Keys |-> b[k].report]
        /\ store' = [k \in Keys |-> storeAfter(store, k[1], k[2], b[k])[k]]
  /\ built' = TRUE
  /\ pc' = "users"
  /\ UNCHANGED <<settingsVars, now, dataset, last, trendCall, kind,
                 fetchFailed, storeAtStart, emails, idx, sentTo, error>>

LoadUsers ==
  /\ pc = "users"
  /\ kind = "checkPrice"
  /\ IF loadUsersThrows
     THEN /\ pc' = "aborted"
          /\ error' = "SyntaxError"
          /\ UNCHANGED <<emails, idx>>
     ELSE /\ emails' = loadUsers
          /\ idx' = 1
          /\ pc' = "add"
          /\ error' = error
  /\ UNCHANGED <<settingsVars, store, now, dataset, last, trendCall, kind,
                 fetchFailed, built, reports, storeAtStart, sentTo>>

NewTestEmail ==
  /\ pc = "users"
  /\ kind = "testScript"
  /\ emails' = <<TestEmail>>
  /\ idx' = 1
  /\ pc' = "add"
  /\ UNCHANGED <<settingsVars, store, now, dataset, last, trendCall, kind,
                 fetchFailed, built, reports, storeAtStart, sentTo, error>>

AddReports ==
  /\ pc = "add"
  /\ emails' = [emails EXCEPT ![idx] =
                  [addReports(@, reports) EXCEPT !.state = "added"]]
  /\ pc' = "send"
  /\ UNCHANGED <<settingsVars, store, now, dataset, last, trendCall, kind,
                 fetchFailed, built, reports, storeAtStart, idx, sentTo, error>>

TrySend ==
  /\ pc = "send"
  /\ emails' = [emails EXCEPT ![idx].state = "tried"]
  /\ LET email == emails[idx]
     IN IF sendGate(email) /\ sendThrows(email)
        THEN /\ pc' = "aborted"
             /\ error' = "TypeError"
             /\ UNCHANGED <<idx, sentTo>>
        ELSE /\ sentTo' = IF sendGate(email)
                          THEN sentTo \cup {email.recipient} ELSE sentTo
             /\ idx' = IF idx < Len(emails) THEN idx + 1 ELSE idx
             /\ pc' = IF idx < Len(emails) THEN "add" ELSE "done"
             /\ error' = error
  /\ UNCHANGED <<settingsVars, store, now, dataset, last, trendCall, kind,
                 fetchFailed, built, reports, storeAtStart>>

NextRun ==
  \/ Start("checkPrice")
  \/ Start("testScript")
  \/ FetchFails
  \/ \E feed \in Feeds : FetchSucceeds(feed)
  \/ BuildReportSet
  \/ LoadUsers
  \/ NewTestEmail
  \/ AddReports
  \/ TrySend

SpecRun == InitRun /\ [][NextRun]_vars

---------------------------------------------------------------------------
(* Properties of checkPrice and testScript, under SpecRun *)

Tried(i) == emails[i].state = "tried"
Sent(i) == emails[i].recipient \in sentTo

(* The reports a digest is to collect: subscribed fuel types x [All, homeState] *)
Collected(email) ==
  {HistoryKey(f, r) : f \in Range(email.fuelTypes),
                      r \in {"All", email.homeState} \ {Null}}

RunOver == pc \in {"done", "aborted"}

\* C3 (as claimed): after addReports and trySend, the digest's email has been
\* sent if and only if forceSend is true or some report collected for the
\* recipient has a trend other than NoChange.
C3_SentIffChangedOrForced ==
  \A i \in 1..Len(emails) :
    Tried(i) =>
      (Sent(i) <=>
         (emails[i].forceSend
            \/ \E k \in Collected(emails[i]) : reports[k].trend # NoChange))

\* C4 (as claimed): in a checkPrice run where one subscriber's stored settings
\* do not parse, the run is not aborted for it and every other subscriber has
\* had addReports and trySend executed by the end of the run.
C4_MalformedSubscriberIsolated ==
  (/\ kind = "checkPrice"
   /\ RunOver
   /\ ~fetchFailed
   /\ Cardinality({u \in Range(Users) : ~properties[u].parses}) = 1) =>
    /\ error # "SyntaxError"
    /\ \A u \in Range(Users) :
         properties[u].parses =>
           \E i \in 1..Len(emails) : emails[i].recipient = u /\ Tried(i)

\* C5: when fetchPriceDataset fails, the run is aborted with the failure as its
\* error, no report has been built, the store is as it was when the run
\* started and no email has been sent.
C5_FetchFailureAborts ==
  fetchFailed =>
    /\ pc = "aborted"
    /\ error = "FeedFetchError"
    /\ ~built
    /\ reports = [k \in Keys |-> NoReport]
    /\ store = storeAtStart
    /\ emails = <<>>
    /\ sentTo = {}

\* C5 witness: the fetch failed in a run that started with a stored history.
C5_Witness ==
  /\ fetchFailed
  /\ pc = "aborted"
  /\ \E k \in Keys : store[k] # <<>>

\* C6 (as claimed): a subscriber whose stored settings say forceSend = true has
\* been sent a digest by the end of every checkPrice run that completes.
C6_StoredForceSendIsSent ==
  (kind = "checkPrice" /\ pc = "done") =>
    \A u \in Range(Users) : StoredForceSend(properties[u]) => u \in sentTo

\* C10 (as claimed): every digest that passes the send gate of trySend is
\* composed and handed to the mail sender, and no digest's send leaves the run
\* with an exception.
C10_GatedDigestIsSent ==
  /\ \A i \in 1..Len(emails) :
       (Tried(i) /\ sendGate(emails[i])) => Sent(i)
  /\ error # "TypeError"

====
